---------------------------- MODULE Spec2Model ----------------------------
(***************************************************************************)
(* hyprkool: a 3x3 grid of named workspaces per activity on top of a       *)
(* compositor, driven by one-shot CLI commands and by an edge-triggered    *)
(* mouse polling loop (src/src/main.rs).                                   *)
(*                                                                         *)
(* Strings are modelled as sequences of one-character strings, so that     *)
(* starts_with, strip_prefix, push_str and format! are computed on the     *)
(* characters as the code computes them.  Indices are 0-based as in the    *)
(* code; TLA+ sequences are 1-based, so every subscript adds one.          *)
(* Every compositor IPC call is taken to succeed once a handler has made   *)
(* its first call; the one transport failure modelled is the cursor query  *)
(* of a mouse-loop tick, which ends the loop.                              *)
(***************************************************************************)
EXTENDS Integers, Sequences, FiniteSets, TLC

VARIABLES
    config,      \* Config read at startup: activities, edge_width, edge_margin, curves
    activities,  \* State.activities
    workspaces,  \* State.workspaces
    active,      \* compositor: name of the active workspace
    cursor,      \* compositor: pointer position <<x, y>>
    monitor,     \* compositor: size of the active monitor (it does not change)
    loop,        \* the MouseLoop process: "off", "running" or "exited"
    last         \* the last handler run: what it read, what it issued, how it ended

vars == <<config, activities, workspaces, active, cursor, monitor, loop, last>>

-----------------------------------------------------------------------------
(* Bounds of the model *)

\* longest configured activity list
MaxActivities == 3
\* how many characters longer than the longest managed name a requested
\* workspace name may get (activity switches can grow the name without end)
MaxGrowth == 1
\* monitor size in pixels, as Monitor::get_active_async reports it
MonitorWidth == 6
MonitorHeight == 5
\* size of the wide monitor, which has room for an edge_width of 2 inside an
\* edge_margin of 4
WideWidth == 9
WideHeight == 9

-----------------------------------------------------------------------------
(* Strings *)

\* str::starts_with
starts_with(s, p) == Len(p) <= Len(s) /\ SubSeq(s, 1, Len(p)) = p

\* Option::None for an index
None == -1

\* str::strip_prefix, given that the prefix matches
strip_prefix(s, p) == SubSeq(s, Len(p) + 1, Len(s))

\* Display of the integers 1..9
Digit == <<"1", "2", "3", "4", "5", "6", "7", "8", "9">>

\* the literal "default"
DefaultName == <<"d", "e", "f", "a", "u", "l", "t">>

\* Rust's % on i64 / isize: the remainder truncates toward zero
RustRem(a, b) == IF a >= 0 THEN a % b ELSE -((-a) % b)

\* i64::max / i64::min
Max(a, b) == IF a >= b THEN a ELSE b
Min(a, b) == IF a <= b THEN a ELSE b

\* Iterator::position, given the predicate's value on each element: the
\* 0-based index of the first element satisfying it
Position(hits) ==
    IF \E i \in 1..Len(hits) : hits[i]
    THEN (CHOOSE i \in 1..Len(hits) : hits[i] /\ \A j \in 1..(i - 1) : ~hits[j]) - 1
    ELSE None

-----------------------------------------------------------------------------
(* State *)

\* raw_workspaces = [1, 2, 3, 4, 5, 6, 7, 8, 9]
raw_workspaces == <<1, 2, 3, 4, 5, 6, 7, 8, 9>>

\* format!("{name}:{id}")
FormatWorkspace(name, id) == name \o <<":", Digit[id]>>

\* State::new: the activities (a single "default" when none is configured)
new_activities(cfg_activities) ==
    IF cfg_activities = <<>> THEN <<DefaultName>> ELSE cfg_activities

\* new_workspaces over the exclusive range (1..9 for 1..=9)
new_workspaces_exclusive(acts) ==
    [a \in 1..Len(acts) |->
        [k \in 1..(Len(raw_workspaces) - 1) |->
            FormatWorkspace(acts[a], raw_workspaces[k])]]

\* State::new: the cooked workspace names of every activity
new_workspaces(acts) ==
    [a \in 1..Len(acts) |->
        [k \in 1..Len(raw_workspaces) |-> FormatWorkspace(acts[a], raw_workspaces[k])]]

\* get_activity_index taking the last matching activity (rposition for position)
get_activity_index_last(name) ==
    IF \E i \in 1..Len(activities) : starts_with(name, activities[i])
    THEN (CHOOSE i \in 1..Len(activities) :
             /\ starts_with(name, activities[i])
             /\ \A j \in (i + 1)..Len(activities) : ~starts_with(name, activities[j])) - 1
    ELSE None

\* State::get_activity_index
get_activity_index(name) ==
    Position([i \in 1..Len(activities) |-> starts_with(name, activities[i])])

\* get_indices matching the workspace by prefix instead of equality
get_indices_prefix(name) ==
    LET activity_index == get_activity_index(name) IN
    IF activity_index = None THEN <<None, None>>
    ELSE <<activity_index,
           Position([k \in 1..Len(workspaces[activity_index + 1]) |->
                        starts_with(name, workspaces[activity_index + 1][k])])>>

\* State::get_indices: <<activity index, workspace index>>; <<None, None>> is None
get_indices(name) ==
    LET activity_index == get_activity_index(name) IN
    IF activity_index = None THEN <<None, None>>
    ELSE <<activity_index,
           Position([k \in 1..Len(workspaces[activity_index + 1]) |->
                        workspaces[activity_index + 1][k] = name])>>

\* moved_index with the slot computed column-major (ix * 3 + iy)
moved_index_transposed(workspace_index, x, y, cycle) ==
    LET iy0 == workspace_index \div 3
        ix0 == workspace_index % 3
        ix == IF cycle THEN RustRem(ix0 + x + 3, 3) ELSE Min(Max(ix0 + x, 0), 2)
        iy == IF cycle THEN RustRem(iy0 + y + 3, 3) ELSE Min(Max(iy0 + y, 0), 2)
    IN ix * 3 + iy

\* moved_index ignoring the cycle flag (always clamping)
moved_index_clamped(workspace_index, x, y, cycle) ==
    LET iy0 == workspace_index \div 3
        ix0 == workspace_index % 3
    IN Min(Max(iy0 + y, 0), 2) * 3 + Min(Max(ix0 + x, 0), 2)

\* the arithmetic of State::moved_workspace on a resolved workspace index
moved_index(workspace_index, x, y, cycle) ==
    LET iy0 == workspace_index \div 3
        ix0 == workspace_index % 3
        ix == IF cycle THEN RustRem(ix0 + x + 3, 3) ELSE Min(Max(ix0 + x, 0), 2)
        iy == IF cycle THEN RustRem(iy0 + y + 3, 3) ELSE Min(Max(iy0 + y, 0), 2)
    IN iy * 3 + ix

\* State::moved_workspace, on the active workspace the compositor reports:
\* Ok(name) or Err("Error: not in a valid activity workspace")
moved_workspace(workspace, x, y, cycle) ==
    LET ind == get_indices(workspace) IN
    IF ind[1] = None \/ ind[2] = None
    THEN [ok |-> FALSE, name |-> <<>>]
    ELSE [ok |-> TRUE,
          name |-> workspaces[ind[1] + 1][moved_index(ind[2], x, y, cycle) + 1]]

-----------------------------------------------------------------------------
(* Commands sent to the compositor *)

Cmd(kind, name, x, y) == [cmd |-> kind, name |-> name, x |-> x, y |-> y]

\* `hyprctl keyword animation workspaces,...,<style>` with the named style slot
AnimationCmd(style) == Cmd("animation", <<style>>, 0, 0)

\* State::move_to_workspace
move_to_workspace(name, move_window) ==
    <<Cmd(IF move_window THEN "movetoworkspace" ELSE "workspace", name, 0, 0)>>

\* State::set_animation_vertical: skipped when the curve is unset
set_animation_vertical ==
    IF config.workspace_switch_animation_curve THEN <<AnimationCmd("vertical")>> ELSE <<>>

\* set_animation_horizontal setting the vertical style (the body of
\* set_animation_vertical)
set_animation_horizontal_vertical_style ==
    IF config.workspace_switch_animation_curve THEN <<AnimationCmd("vertical")>> ELSE <<>>

\* State::set_animation_horizontal
set_animation_horizontal ==
    IF config.workspace_switch_animation_curve THEN <<AnimationCmd("horizontal")>> ELSE <<>>

\* State::set_activity_animation
set_activity_animation ==
    IF config.acitvity_switch_animation_curve THEN <<AnimationCmd("activity")>> ELSE <<>>

\* what a handler run leaves behind
Run(op, cycle, arg, from, sample, issued, result) ==
    [op |-> op, cycle |-> cycle, arg |-> arg, from |-> from, sample |-> sample,
     issued |-> issued, result |-> result]

NoSample == <<-1, -1>>

-----------------------------------------------------------------------------
(* Inputs *)

A == <<"a">>
B == <<"b">>
AB == <<"a", "b">>
A2 == <<"a", ":", "2">>
C == <<"c">>

\* configured activity lists: empty, single, prefix-free, one name a prefix of
\* another (in both orders), a name that is another activity's workspace name,
\* a duplicate
ConfigLists ==
    { <<>>, <<A>>, <<A, B>>, <<A, AB>>, <<AB, A>>, <<A2, A>>, <<A, A>>,
      <<B, A, AB>>, <<AB, A2, B>>, <<AB, A2, B, C>> }

ActivityLists == { l \in ConfigLists : Len(l) <= MaxActivities }

\* which of workspace_switch_animation_curve and acitvity_switch_animation_curve
\* is set: each alone, so that each is set in one configuration and unset (as
\* in Config::default) in the other
CurveConfigs == { <<TRUE, FALSE>>, <<FALSE, TRUE>> }

\* edge_width and edge_margin values (Config::default gives 0 and 2)
EdgeWidths == {0, 1}
EdgeMargins == {2, 3}

\* workspace names that no grid of ActivityLists generates
Unmanaged == { <<"1">>, <<"a", ":", "1", "0">> }

\* names given to SwitchToWorkspace, and the workspaces active at the start
WorkspaceArgs ==
    { workspaces[a][k] : a \in 1..Len(workspaces), k \in {1, 5} } \cup Unmanaged

\* workspaces another actor switches to
ExternalTargets == { workspaces[a][5] : a \in 1..Len(workspaces) } \cup Unmanaged

\* names given to SwitchToActivity
ActivityArgs == { A, B }

\* names given to SwitchToWorkspaceInActivity
LocalArgs == { <<"5">>, <<"x">> }

-----------------------------------------------------------------------------
(* One-shot commands: each is one process run, main() from State::new to Ok/Err *)

\* DirectionalMove setting the animation before the workspace is resolved
DirectionalMove_animation_first(op, x, y, horizontal, cycle, move_window) ==
    LET r == moved_workspace(active, x, y, cycle)
        animation == IF horizontal THEN set_animation_horizontal
                                   ELSE set_animation_vertical
    IN  /\ active' = IF r.ok THEN r.name ELSE active
        /\ last' = Run(op, cycle, <<>>, active, NoSample,
                       IF r.ok THEN animation \o move_to_workspace(r.name, move_window)
                               ELSE animation,
                       IF r.ok THEN "ok" ELSE "not in a valid activity workspace")
        /\ UNCHANGED <<config, monitor, activities, workspaces, cursor, loop>>

\* the body shared by Command::MoveRight / MoveLeft / MoveUp / MoveDown
DirectionalMove(op, x, y, horizontal, cycle, move_window) ==
    LET r == moved_workspace(active, x, y, cycle)
        animation == IF horizontal THEN set_animation_horizontal
                                   ELSE set_animation_vertical
    IN  /\ active' = IF r.ok THEN r.name ELSE active
        /\ last' = Run(op, cycle, <<>>, active, NoSample,
                       IF r.ok THEN animation \o move_to_workspace(r.name, move_window)
                               ELSE <<>>,
                       IF r.ok THEN "ok" ELSE "not in a valid activity workspace")
        /\ UNCHANGED <<config, monitor, activities, workspaces, cursor, loop>>

MoveRight(cycle, move_window) == DirectionalMove("MoveRight", 1, 0, TRUE, cycle, move_window)

MoveLeft(cycle, move_window) == DirectionalMove("MoveLeft", -1, 0, TRUE, cycle, move_window)

MoveUp(cycle, move_window) == DirectionalMove("MoveUp", 0, -1, FALSE, cycle, move_window)

MoveDown(cycle, move_window) == DirectionalMove("MoveDown", 0, 1, FALSE, cycle, move_window)

\* next_activity_index clamping where it should wrap
next_activity_index_clamped(activity_index, cycle) ==
    IF activity_index = None THEN 0
    ELSE IF cycle THEN Min(activity_index + 1, Len(activities) - 1)
    ELSE Min(activity_index, Len(activities) - 1)

\* Command::NextActivity: the closure computing new_activity_index
next_activity_index(activity_index, cycle) ==
    IF activity_index = None THEN 0
    ELSE IF cycle THEN (activity_index + 1) % Len(activities)
    ELSE Min(activity_index, Len(activities) - 1)

\* Command::PrevActivity: the closure computing new_activity_index
prev_activity_index(activity_index, cycle) ==
    IF activity_index = None THEN 0
    ELSE IF cycle THEN RustRem(activity_index + Len(activities) - 1, Len(activities))
    ELSE Max(activity_index, 0)

\* activity_target appending the whole workspace name (strip_prefix left out)
activity_target_unstripped(workspace, activity_index, new_activity_index) ==
    IF activity_index /= None
    THEN activities[new_activity_index + 1] \o workspace
    ELSE workspaces[new_activity_index + 1][1]

\* activity_target without the fallback to the first workspace (the else
\* branch left out: the bare activity name is the target)
activity_target_bare(workspace, activity_index, new_activity_index) ==
    IF activity_index /= None
    THEN activities[new_activity_index + 1]
            \o strip_prefix(workspace, activities[activity_index + 1])
    ELSE activities[new_activity_index + 1]

\* Command::NextActivity / PrevActivity: the name switched to
activity_target(workspace, activity_index, new_activity_index) ==
    IF activity_index /= None
    THEN activities[new_activity_index + 1]
            \o strip_prefix(workspace, activities[activity_index + 1])
    ELSE workspaces[new_activity_index + 1][1]

\* the name NextActivity switches to from `workspace`
next_activity_name(workspace, cycle) ==
    LET activity_index == get_activity_index(workspace) IN
    activity_target(workspace, activity_index, next_activity_index(activity_index, cycle))

\* the name PrevActivity switches to from `workspace`
prev_activity_name(workspace, cycle) ==
    LET activity_index == get_activity_index(workspace) IN
    activity_target(workspace, activity_index, prev_activity_index(activity_index, cycle))

\* the length of the longest generated workspace name
LongestManaged ==
    LET longest == CHOOSE a \in 1..Len(activities) :
                       \A b \in 1..Len(activities) : Len(activities[b]) <= Len(activities[a])
    IN Len(workspaces[longest][1])

\* a switch with the activity animation, as every activity/workspace command ends
ActivitySwitch(op, cycle, arg, from, name, move_window) ==
    /\ Len(name) <= LongestManaged + MaxGrowth
    /\ active' = name
    /\ last' = Run(op, cycle, arg, from, NoSample,
                   set_activity_animation \o move_to_workspace(name, move_window), "ok")
    /\ UNCHANGED <<config, monitor, activities, workspaces, cursor, loop>>

\* a command that fails before issuing anything
Failure(op, arg, from, error) ==
    /\ last' = Run(op, FALSE, arg, from, NoSample, <<>>, error)
    /\ UNCHANGED <<config, monitor, activities, workspaces, active, cursor, loop>>

NextActivity(cycle, move_window) ==
    ActivitySwitch("NextActivity", cycle, <<>>, active,
                   next_activity_name(active, cycle), move_window)

PrevActivity(cycle, move_window) ==
    ActivitySwitch("PrevActivity", cycle, <<>>, active,
                   prev_activity_name(active, cycle), move_window)

SwitchToWorkspace(name, move_window) ==
    LET ind == get_indices(name) IN
    IF ind[1] = None THEN Failure("SwitchToWorkspace", name, <<>>, "activity not found")
    ELSE IF ind[2] = None
    THEN Failure("SwitchToWorkspace", name, <<>>, "workspace not found")
    ELSE ActivitySwitch("SwitchToWorkspace", FALSE, name, <<>>,
                        workspaces[ind[1] + 1][ind[2] + 1], move_window)

SwitchToWorkspaceInActivity(name, move_window) ==
    LET activity_index == get_activity_index(active) IN
    IF activity_index = None
    THEN Failure("SwitchToWorkspaceInActivity", name, active,
                 "could not get current activity")
    ELSE ActivitySwitch("SwitchToWorkspaceInActivity", FALSE, name, active,
                        activities[activity_index + 1] \o <<":">> \o name, move_window)

SwitchToActivity(name, move_window) ==
    LET activity_index == get_activity_index(active) IN
    ActivitySwitch("SwitchToActivity", FALSE, name, active,
                   IF activity_index /= None
                   THEN name \o strip_prefix(active, activities[activity_index + 1])
                   ELSE name \o <<"0">>,
                   move_window)

-----------------------------------------------------------------------------
(* The compositor's other clients *)

\* another actor makes workspace w the active one
ExternalSwitch(w) ==
    /\ w /= active
    /\ active' = w
    /\ last' = Run("external", FALSE, <<>>, <<>>, NoSample, <<>>, "ok")
    /\ UNCHANGED <<config, monitor, activities, workspaces, cursor, loop>>

-----------------------------------------------------------------------------
(* Specification of the one-shot commands *)

NoRun == Run("none", FALSE, <<>>, <<>>, NoSample, <<>>, "ok")

InitState(acts, w, m, wcurve, acurve) ==
    /\ config = [activities |-> acts, edge_width |-> w, edge_margin |-> m,
                 workspace_switch_animation_curve |-> wcurve,
                 acitvity_switch_animation_curve |-> acurve]
    /\ activities = new_activities(acts)
    /\ workspaces = new_workspaces(new_activities(acts))
    /\ monitor = [width |-> MonitorWidth, height |-> MonitorHeight]
    /\ cursor = <<MonitorWidth \div 2, MonitorHeight \div 2>>
    /\ loop = "off"
    /\ last = NoRun

Init ==
    /\ \E acts \in ActivityLists, curves \in CurveConfigs :
           InitState(acts, 0, 2, curves[1], curves[2])
    /\ active \in WorkspaceArgs

Next ==
    \/ \E cycle \in BOOLEAN, move_window \in BOOLEAN : MoveRight(cycle, move_window)
    \/ \E cycle \in BOOLEAN, move_window \in BOOLEAN : MoveLeft(cycle, move_window)
    \/ \E cycle \in BOOLEAN, move_window \in BOOLEAN : MoveUp(cycle, move_window)
    \/ \E cycle \in BOOLEAN, move_window \in BOOLEAN : MoveDown(cycle, move_window)
    \/ \E cycle \in BOOLEAN, move_window \in BOOLEAN : NextActivity(cycle, move_window)
    \/ \E cycle \in BOOLEAN, move_window \in BOOLEAN : PrevActivity(cycle, move_window)
    \/ \E name \in WorkspaceArgs, move_window \in BOOLEAN :
           SwitchToWorkspace(name, move_window)
    \/ \E name \in LocalArgs, move_window \in BOOLEAN :
           SwitchToWorkspaceInActivity(name, move_window)
    \/ \E name \in ActivityArgs, move_window \in BOOLEAN :
           SwitchToActivity(name, move_window)
    \/ \E w \in ExternalTargets : ExternalSwitch(w)

Spec == Init /\ [][Next]_vars

-----------------------------------------------------------------------------
(* Command::MouseLoop *)

\* edge_x insetting the left-edge reposition by edge_width instead of edge_margin
edge_x_width_inset(cx) ==
    IF cx <= config.edge_width
    THEN [delta |-> 3 - 1, pos |-> monitor.width - config.edge_width]
    ELSE IF cx >= monitor.width - 1 - config.edge_width
    THEN [delta |-> 1, pos |-> 2]
    ELSE [delta |-> 0, pos |-> cx]

\* edge_x with the two deltas exchanged: the left edge steps right
edge_x_swapped(cx) ==
    IF cx <= config.edge_width
    THEN [delta |-> 1, pos |-> monitor.width - config.edge_margin]
    ELSE IF cx >= monitor.width - 1 - config.edge_width
    THEN [delta |-> 3 - 1, pos |-> 2]
    ELSE [delta |-> 0, pos |-> cx]

\* edge_x counting the left edge as a step of -1 instead of 3 - 1
edge_x_signed(cx) ==
    IF cx <= config.edge_width
    THEN [delta |-> -1, pos |-> monitor.width - config.edge_margin]
    ELSE IF cx >= monitor.width - 1 - config.edge_width
    THEN [delta |-> 1, pos |-> 2]
    ELSE [delta |-> 0, pos |-> cx]

\* the x-axis edge test of a tick: the grid delta and the cursor x to restore
edge_x(cx) ==
    IF cx <= config.edge_width
    THEN [delta |-> 3 - 1, pos |-> monitor.width - config.edge_margin]
    ELSE IF cx >= monitor.width - 1 - config.edge_width
    THEN [delta |-> 1, pos |-> 2]
    ELSE [delta |-> 0, pos |-> cx]

\* edge_y counting the top edge as a full turn of 3 instead of 3 - 1
edge_y_full_turn(cy) ==
    IF cy <= config.edge_width
    THEN [delta |-> 3, pos |-> monitor.height - config.edge_margin]
    ELSE IF cy >= monitor.height - 1 - config.edge_width
    THEN [delta |-> 1, pos |-> 2]
    ELSE [delta |-> 0, pos |-> cy]

\* the y-axis edge test of a tick
edge_y(cy) ==
    IF cy <= config.edge_width
    THEN [delta |-> 3 - 1, pos |-> monitor.height - config.edge_margin]
    ELSE IF cy >= monitor.height - 1 - config.edge_width
    THEN [delta |-> 1, pos |-> 2]
    ELSE [delta |-> 0, pos |-> cy]

\* DispatchType::MoveCursor(x, y)
MoveCursor(x, y) == Cmd("movecursor", <<>>, x, y)

\* the start of the loop: switch to the first workspace, read the monitor
MouseLoopStart ==
    /\ loop /= "running"
    /\ loop' = "running"
    /\ active' = workspaces[1][1]
    /\ last' = Run("MouseLoop", FALSE, <<>>, <<>>, NoSample,
                   move_to_workspace(workspaces[1][1], FALSE), "ok")
    /\ UNCHANGED <<config, monitor, activities, workspaces, cursor>>

\* MouseLoopTick leaving the loop on an unknown workspace (`?` for `continue`)
MouseLoopTick_unknown_exits ==
    /\ loop = "running"
    /\ LET ex == edge_x(cursor[1])
           ey == edge_y(cursor[2])
           ind == get_indices(active)
           move_vert == ey.delta > 0
           move_hor == ex.delta > 0
           y == (ey.delta + (ind[2] \div 3)) % 3
           x == (ex.delta + (ind[2] % 3)) % 3
           new_workspace == workspaces[ind[1] + 1][y * 3 + x + 1]
           animation == IF move_hor THEN set_animation_horizontal
                        ELSE IF move_vert THEN set_animation_vertical
                        ELSE <<>>
       IN  IF ex.delta + ey.delta = 0
           THEN /\ last' = Run("tick", FALSE, <<>>, <<>>, cursor, <<>>, "idle")
                /\ UNCHANGED <<active, cursor, loop>>
           ELSE IF ind[1] = None \/ ind[2] = None
           THEN /\ last' = Run("tick", FALSE, <<>>, active, cursor, <<>>,
                               "unknown workspace")
                /\ loop' = "exited"
                /\ UNCHANGED <<active, cursor>>
           ELSE IF new_workspace /= active
           THEN /\ last' = Run("tick", FALSE, <<>>, active, cursor,
                               animation \o move_to_workspace(new_workspace, FALSE)
                                   \o <<MoveCursor(ex.pos, ey.pos)>>,
                               "switched")
                /\ active' = new_workspace
                /\ cursor' = <<ex.pos, ey.pos>>
                /\ UNCHANGED loop
           ELSE /\ last' = Run("tick", FALSE, <<>>, active, cursor, <<>>, "same workspace")
                /\ UNCHANGED <<active, cursor, loop>>
    /\ UNCHANGED <<config, monitor, activities, workspaces>>

\* MouseLoopTick moving the cursor before the animation and the switch
MouseLoopTick_cursor_first ==
    /\ loop = "running"
    /\ LET ex == edge_x(cursor[1])
           ey == edge_y(cursor[2])
           ind == get_indices(active)
           move_vert == ey.delta > 0
           move_hor == ex.delta > 0
           y == (ey.delta + (ind[2] \div 3)) % 3
           x == (ex.delta + (ind[2] % 3)) % 3
           new_workspace == workspaces[ind[1] + 1][y * 3 + x + 1]
           animation == IF move_hor THEN set_animation_horizontal
                        ELSE IF move_vert THEN set_animation_vertical
                        ELSE <<>>
       IN  IF ex.delta + ey.delta = 0
           THEN /\ last' = Run("tick", FALSE, <<>>, <<>>, cursor, <<>>, "idle")
                /\ UNCHANGED <<active, cursor>>
           ELSE IF ind[1] = None \/ ind[2] = None
           THEN /\ last' = Run("tick", FALSE, <<>>, active, cursor, <<>>,
                               "unknown workspace")
                /\ UNCHANGED <<active, cursor>>
           ELSE IF new_workspace /= active
           THEN /\ last' = Run("tick", FALSE, <<>>, active, cursor,
                               <<MoveCursor(ex.pos, ey.pos)>> \o animation
                                   \o move_to_workspace(new_workspace, FALSE),
                               "switched")
                /\ active' = new_workspace
                /\ cursor' = <<ex.pos, ey.pos>>
           ELSE /\ last' = Run("tick", FALSE, <<>>, active, cursor, <<>>, "same workspace")
                /\ UNCHANGED <<active, cursor>>
    /\ UNCHANGED <<config, monitor, activities, workspaces, loop>>

\* MouseLoopTick computing the target from the workspace the loop started in
\* (the active workspace read once, before the loop, like the monitor)
MouseLoopTick_cached ==
    /\ loop = "running"
    /\ LET ex == edge_x(cursor[1])
           ey == edge_y(cursor[2])
           ind == get_indices(workspaces[1][1])
           move_vert == ey.delta > 0
           move_hor == ex.delta > 0
           y == (ey.delta + (ind[2] \div 3)) % 3
           x == (ex.delta + (ind[2] % 3)) % 3
           new_workspace == workspaces[ind[1] + 1][y * 3 + x + 1]
           animation == IF move_hor THEN set_animation_horizontal
                        ELSE IF move_vert THEN set_animation_vertical
                        ELSE <<>>
       IN  IF ex.delta + ey.delta = 0
           THEN /\ last' = Run("tick", FALSE, <<>>, <<>>, cursor, <<>>, "idle")
                /\ UNCHANGED <<active, cursor>>
           ELSE IF ind[1] = None \/ ind[2] = None
           THEN /\ last' = Run("tick", FALSE, <<>>, active, cursor, <<>>,
                               "unknown workspace")
                /\ UNCHANGED <<active, cursor>>
           ELSE IF new_workspace /= active
           THEN /\ last' = Run("tick", FALSE, <<>>, active, cursor,
                               animation \o move_to_workspace(new_workspace, FALSE)
                                   \o <<MoveCursor(ex.pos, ey.pos)>>,
                               "switched")
                /\ active' = new_workspace
                /\ cursor' = <<ex.pos, ey.pos>>
           ELSE /\ last' = Run("tick", FALSE, <<>>, active, cursor, <<>>, "same workspace")
                /\ UNCHANGED <<active, cursor>>
    /\ UNCHANGED <<config, monitor, activities, workspaces, loop>>

\* one iteration of the loop, from the sleep to the end of the body
MouseLoopTick ==
    /\ loop = "running"
    /\ LET ex == edge_x(cursor[1])
           ey == edge_y(cursor[2])
           ind == get_indices(active)
           move_vert == ey.delta > 0
           move_hor == ex.delta > 0
           y == (ey.delta + (ind[2] \div 3)) % 3
           x == (ex.delta + (ind[2] % 3)) % 3
           new_workspace == workspaces[ind[1] + 1][y * 3 + x + 1]
           animation == IF move_hor THEN set_animation_horizontal
                        ELSE IF move_vert THEN set_animation_vertical
                        ELSE <<>>
       IN  IF ex.delta + ey.delta = 0
           THEN /\ last' = Run("tick", FALSE, <<>>, <<>>, cursor, <<>>, "idle")
                /\ UNCHANGED <<active, cursor>>
           ELSE IF ind[1] = None \/ ind[2] = None
           THEN /\ last' = Run("tick", FALSE, <<>>, active, cursor, <<>>,
                               "unknown workspace")
                /\ UNCHANGED <<active, cursor>>
           ELSE IF new_workspace /= active
           THEN /\ last' = Run("tick", FALSE, <<>>, active, cursor,
                               animation \o move_to_workspace(new_workspace, FALSE)
                                   \o <<MoveCursor(ex.pos, ey.pos)>>,
                               "switched")
                /\ active' = new_workspace
                /\ cursor' = <<ex.pos, ey.pos>>
           ELSE /\ last' = Run("tick", FALSE, <<>>, active, cursor, <<>>, "same workspace")
                /\ UNCHANGED <<active, cursor>>
    /\ UNCHANGED <<config, monitor, activities, workspaces, loop>>

\* the cursor query of a tick fails (the compositor is gone): `?` ends main
MouseLoopTransportError ==
    /\ loop = "running"
    /\ loop' = "exited"
    /\ last' = Run("tick", FALSE, <<>>, <<>>, NoSample, <<>>, "transport error")
    /\ UNCHANGED <<config, monitor, activities, workspaces, active, cursor>>

\* the user moves the pointer
PointerMove(x, y) ==
    /\ <<x, y>> /= cursor
    /\ cursor' = <<x, y>>
    /\ last' = Run("pointer", FALSE, <<>>, <<>>, NoSample, <<>>, "ok")
    /\ UNCHANGED <<config, monitor, activities, workspaces, active, loop>>

-----------------------------------------------------------------------------
(* Specification of the mouse loop *)

\* configured activity lists of the mouse-loop runs
MouseLists == { <<>>, <<A, B>>, <<A, AB>>, <<A2, A>> }

InitMouse ==
    /\ \E acts \in MouseLists, w \in EdgeWidths, m \in EdgeMargins, wcurve \in BOOLEAN :
           InitState(acts, w, m, wcurve, FALSE)
    /\ active \in WorkspaceArgs

NextMouse ==
    \/ MouseLoopStart
    \/ MouseLoopTick
    \/ MouseLoopTransportError
    \/ \E x \in 0..(monitor.width - 1), y \in 0..(monitor.height - 1) : PointerMove(x, y)
    \/ \E w \in ExternalTargets : ExternalSwitch(w)

SpecMouse == InitMouse /\ [][NextMouse]_vars

-----------------------------------------------------------------------------
(* Specification of navigation: the directional moves, the activity steps and
   the mouse loop, started in a workspace of the grid *)

\* the workspaces active at the start of a navigation run
NavStarts == { workspaces[a][k] : a \in 1..Len(workspaces), k \in {1, 5} }

\* where the user leaves the pointer: the top left corner, the middle of the
\* right edge, the centre
PointerTargets ==
    { <<0, 0>>, <<monitor.width - 1, monitor.height \div 2>>,
      <<monitor.width \div 2, monitor.height \div 2>> }

\* configured activity lists of the navigation runs: those of the mouse-loop
\* runs and a prefix-free list of three
NavLists == MouseLists \cup { <<AB, A2, B>> }

InitNav ==
    /\ \E acts \in NavLists : InitState(acts, 0, 2, FALSE, FALSE)
    /\ active \in NavStarts

NextNav ==
    \/ \E cycle \in BOOLEAN, move_window \in BOOLEAN : MoveRight(cycle, move_window)
    \/ \E cycle \in BOOLEAN, move_window \in BOOLEAN : MoveLeft(cycle, move_window)
    \/ \E cycle \in BOOLEAN, move_window \in BOOLEAN : MoveUp(cycle, move_window)
    \/ \E cycle \in BOOLEAN, move_window \in BOOLEAN : MoveDown(cycle, move_window)
    \/ \E cycle \in BOOLEAN, move_window \in BOOLEAN : NextActivity(cycle, move_window)
    \/ \E cycle \in BOOLEAN, move_window \in BOOLEAN : PrevActivity(cycle, move_window)
    \/ MouseLoopStart
    \/ MouseLoopTick
    \/ \E p \in PointerTargets : PointerMove(p[1], p[2])

SpecNav == InitNav /\ [][NextNav]_vars

-----------------------------------------------------------------------------
(* Specification of the whole program: every command, the mouse loop and the
   compositor's other clients *)

InitAll ==
    /\ \E acts \in MouseLists : InitState(acts, 0, 2, FALSE, FALSE)
    /\ active \in NavStarts

NextAll ==
    \/ \E cycle \in BOOLEAN, move_window \in BOOLEAN : MoveRight(cycle, move_window)
    \/ \E cycle \in BOOLEAN, move_window \in BOOLEAN : MoveLeft(cycle, move_window)
    \/ \E cycle \in BOOLEAN, move_window \in BOOLEAN : MoveUp(cycle, move_window)
    \/ \E cycle \in BOOLEAN, move_window \in BOOLEAN : MoveDown(cycle, move_window)
    \/ \E cycle \in BOOLEAN, move_window \in BOOLEAN : NextActivity(cycle, move_window)
    \/ \E cycle \in BOOLEAN, move_window \in BOOLEAN : PrevActivity(cycle, move_window)
    \/ \E name \in WorkspaceArgs, move_window \in BOOLEAN :
           SwitchToWorkspace(name, move_window)
    \/ \E name \in LocalArgs, move_window \in BOOLEAN :
           SwitchToWorkspaceInActivity(name, move_window)
    \/ \E name \in ActivityArgs, move_window \in BOOLEAN :
           SwitchToActivity(name, move_window)
    \/ MouseLoopStart
    \/ MouseLoopTick
    \/ MouseLoopTransportError
    \/ \E p \in PointerTargets : PointerMove(p[1], p[2])
    \/ \E w \in ExternalTargets : ExternalSwitch(w)

SpecAll == InitAll /\ [][NextAll]_vars

-----------------------------------------------------------------------------
(* Specification of the mouse loop on the wide monitor *)

\* edge_width and edge_margin of the runs on the wide monitor
WideEdges == { <<0, 2>>, <<1, 3>>, <<2, 4>> }

InitWide ==
    /\ \E e \in WideEdges :
           config = [activities |-> <<A, B>>, edge_width |-> e[1], edge_margin |-> e[2],
                     workspace_switch_animation_curve |-> FALSE,
                     acitvity_switch_animation_curve |-> FALSE]
    /\ activities = new_activities(<<A, B>>)
    /\ workspaces = new_workspaces(new_activities(<<A, B>>))
    /\ monitor = [width |-> WideWidth, height |-> WideHeight]
    /\ cursor = <<WideWidth \div 2, WideHeight \div 2>>
    /\ loop = "off"
    /\ last = NoRun
    /\ active \in NavStarts

NextWide ==
    \/ MouseLoopStart
    \/ MouseLoopTick
    \/ MouseLoopTransportError
    \/ \E x \in 0..(monitor.width - 1), y \in 0..(monitor.height - 1) : PointerMove(x, y)

SpecWide == InitWide /\ [][NextWide]_vars

-----------------------------------------------------------------------------
(* Vocabulary of the properties *)

Activities == 1..Len(activities)
Slots == 1..9
Deltas == {-1, 0, 1}

\* the workspace resolves to (activity index, Some(workspace index))
Managed(w) == get_indices(w)[1] /= None /\ get_indices(w)[2] /= None

\* the name a run's workspace switch went to
Target(run) == run.issued[Len(run.issued)].name

\* the kinds of the commands a run issued
Kinds(run) == { run.issued[i].cmd : i \in 1..Len(run.issued) }

Switches == {"workspace", "movetoworkspace"}

Directional == {"MoveRight", "MoveLeft", "MoveUp", "MoveDown"}

\* the deltas a directional command passes to moved_workspace
Dx(op) == CASE op = "MoveRight" -> 1 [] op = "MoveLeft" -> -1 [] OTHER -> 0
Dy(op) == CASE op = "MoveDown" -> 1 [] op = "MoveUp" -> -1 [] OTHER -> 0

\* the generated name "{activity_name}:{local_index+1}", indices 0-based
Generated(activity_index, local_index) ==
    activities[activity_index + 1] \o <<":", Digit[local_index + 1]>>

\* no activity before activity_index is a prefix of the name
NoEarlierPrefix(activity_index, name) ==
    \A j \in 0..(activity_index - 1) : ~starts_with(name, activities[j + 1])

\* no activity name is a prefix of another activity's name
PrefixFree ==
    \A i, j \in Activities : i /= j => ~starts_with(activities[j], activities[i])

\* the reference grid move on a slot index
ClampAxis(v) == IF v < 0 THEN 0 ELSE IF v > 2 THEN 2 ELSE v
RefMove(k, dx, dy, cycle) ==
    LET row == k \div 3
        col == k % 3
        col2 == IF cycle THEN (col + dx) % 3 ELSE ClampAxis(col + dx)
        row2 == IF cycle THEN (row + dy) % 3 ELSE ClampAxis(row + dy)
    IN row2 * 3 + col2

-----------------------------------------------------------------------------
(* C1: name resolution round-trips on the generated workspace names.       *)

\* C1 as stated: for every grid, every activity index and every local index,
\* get_indices of the generated name is (activity_index, Some(local_index)).
C1_RoundTripAnyNames ==
    \A a \in Activities, k \in Slots :
        get_indices(Generated(a - 1, k - 1)) = <<a - 1, k - 1>>

\* C1 amended: get_indices of the generated name of (activity_index,
\* local_index) is (activity_index, Some(local_index)) exactly when no
\* activity earlier in the list is a prefix of that name; the generated names
\* are the names State::new stored.
C1_RoundTrip ==
    \A a \in Activities, k \in Slots :
        /\ workspaces[a][k] = Generated(a - 1, k - 1)
        /\ NoEarlierPrefix(a - 1, Generated(a - 1, k - 1))
             <=> get_indices(Generated(a - 1, k - 1)) = <<a - 1, k - 1>>

\* SwitchToWorkspace resolved a generated name of the second activity, while
\* the first activity's name is a prefix of another generated name
C1_Witness ==
    /\ last.op = "SwitchToWorkspace" /\ last.result = "ok"
    /\ Len(activities) = 3
    /\ last.arg = Generated(1, 4)
    /\ get_indices(last.arg) = <<1, 4>>
    /\ active = workspaces[2][5]
    /\ ~NoEarlierPrefix(2, Generated(2, 0))

-----------------------------------------------------------------------------
(* C2: the directional-move target is the reference grid move.             *)

\* C2: from a managed workspace (a, k), moved_workspace(dx, dy, cycle) is Ok
\* with workspace a's slot RefMove(k, dx, dy, cycle), for all dx, dy in
\* {-1, 0, 1}; and each directional command run from a managed workspace
\* switched to that slot for its own (dx, dy).
C2_ReferenceMove ==
    /\ Managed(active) =>
         \A dx \in Deltas, dy \in Deltas, cycle \in BOOLEAN :
             moved_workspace(active, dx, dy, cycle) =
                 [ok |-> TRUE,
                  name |-> workspaces[get_indices(active)[1] + 1]
                                     [RefMove(get_indices(active)[2], dx, dy, cycle) + 1]]
    /\ (last.op \in Directional /\ Managed(last.from)) =>
         /\ last.result = "ok"
         /\ Target(last) = Generated(get_indices(last.from)[1],
                                     RefMove(get_indices(last.from)[2],
                                             Dx(last.op), Dy(last.op), last.cycle))
         /\ active = Target(last)

\* MoveLeft without cycle from column 0 of the middle row stayed in place
C2_Witness ==
    /\ last.op = "MoveLeft" /\ ~last.cycle /\ last.result = "ok"
    /\ get_indices(last.from) = <<0, 3>>
    /\ Target(last) = last.from
    /\ active = last.from

-----------------------------------------------------------------------------
(* C3: with cycle the directional moves are invertible.                    *)

\* C3 as stated: from every managed workspace, the cycle move (dx, dy)
\* followed by the cycle move (-dx, -dy) on the resulting workspace returns
\* the original workspace; after a directional command with cycle, the
\* opposite move with cycle leads back.
C3_InvertibleAnyNames ==
    /\ Managed(active) =>
        \A dx \in Deltas, dy \in Deltas :
            LET there == moved_workspace(active, dx, dy, TRUE)
                back == moved_workspace(there.name, -dx, -dy, TRUE)
            IN there.ok /\ back.ok /\ back.name = active
    /\ (last.op \in Directional /\ last.cycle /\ Managed(last.from)) =>
         moved_workspace(active, -Dx(last.op), -Dy(last.op), TRUE) =
             [ok |-> TRUE, name |-> last.from]

\* every workspace name of the activity resolves to that activity
ResolvesToOwnActivity(activity_index) ==
    \A k \in Slots : NoEarlierPrefix(activity_index, Generated(activity_index, k - 1))

\* C3 amended: the same, from every managed workspace of an activity none of
\* whose 9 workspace names has an earlier activity's name as a prefix; and
\* after a directional command with cycle run from such a workspace, the
\* opposite move with cycle leads back to the workspace it was run from.
C3_Invertible ==
    /\ (Managed(active) /\ ResolvesToOwnActivity(get_indices(active)[1])) =>
        \A dx \in Deltas, dy \in Deltas :
            LET there == moved_workspace(active, dx, dy, TRUE)
                back == moved_workspace(there.name, -dx, -dy, TRUE)
            IN there.ok /\ back.ok /\ back.name = active
    /\ (/\ last.op \in Directional /\ last.cycle /\ Managed(last.from)
        /\ ResolvesToOwnActivity(get_indices(last.from)[1])) =>
         moved_workspace(active, -Dx(last.op), -Dy(last.op), TRUE) =
             [ok |-> TRUE, name |-> last.from]

\* MoveRight with cycle wrapped from column 2 to column 0, and MoveLeft with
\* cycle from there leads back
C3_Witness ==
    /\ last.op = "MoveRight" /\ last.cycle /\ last.result = "ok"
    /\ get_indices(last.from) = <<0, 5>>
    /\ get_indices(active) = <<0, 3>>
    /\ ResolvesToOwnActivity(0)
    /\ moved_workspace(active, -1, 0, TRUE).name = last.from

-----------------------------------------------------------------------------
(* C4: NextActivity / PrevActivity without cycle advance by one and clamp. *)

\* C4: a NextActivity{cycle:false} run from a workspace of activity i of n
\* switched to activity min(i + 1, n - 1), and a PrevActivity{cycle:false}
\* run switched to activity max(i - 1, 0): the name switched to is that
\* activity's name followed by the current workspace's suffix.
C4_NoCycleAdvances ==
    LET i == get_activity_index(last.from)
        n == Len(activities)
        suffix == strip_prefix(last.from, activities[i + 1])
    IN  /\ (last.op = "NextActivity" /\ ~last.cycle /\ i /= None) =>
             Target(last) = activities[(IF i + 1 < n - 1 THEN i + 1 ELSE n - 1) + 1]
                                \o suffix
        /\ (last.op = "PrevActivity" /\ ~last.cycle /\ i /= None) =>
             Target(last) = activities[(IF i - 1 > 0 THEN i - 1 ELSE 0) + 1] \o suffix

-----------------------------------------------------------------------------
(* C5: with cycle and prefix-free names, activity cycling wraps and keeps  *)
(* the local slot.                                                         *)

RECURSIVE NextActivityTimes(_, _)
\* the workspace reached by `times` consecutive NextActivity{cycle:true}
NextActivityTimes(times, workspace) ==
    IF times = 0 THEN workspace
    ELSE NextActivityTimes(times - 1, next_activity_name(workspace, TRUE))

\* C5: when no activity name is a prefix of another, from a managed workspace
\* (i, k) of n activities NextActivity{cycle:true} targets the generated name
\* of ((i + 1) mod n, k), PrevActivity{cycle:true} that of ((i - 1) mod n, k),
\* n consecutive NextActivity lead back to the workspace, and the commands
\* run from such a workspace switched to those names.
C5_CycleKeepsSlot ==
    LET n == Len(activities) IN
    PrefixFree =>
        /\ Managed(active) =>
             LET i == get_indices(active)[1]
                 k == get_indices(active)[2]
             IN  /\ next_activity_name(active, TRUE) = Generated((i + 1) % n, k)
                 /\ prev_activity_name(active, TRUE) = Generated((i - 1) % n, k)
                 /\ NextActivityTimes(n, active) = active
        /\ (last.op \in {"NextActivity", "PrevActivity"} /\ last.cycle
              /\ Managed(last.from)) =>
             LET i == get_indices(last.from)[1]
                 k == get_indices(last.from)[2]
                 step == IF last.op = "NextActivity" THEN 1 ELSE -1
             IN  /\ last.result = "ok"
                 /\ Target(last) = Generated((i + step) % n, k)
                 /\ active = Target(last)
                 /\ get_indices(active) = <<(i + step) % n, k>>

\* NextActivity with cycle wrapped from the last of three prefix-free
\* activities to the first, keeping slot 5
C5_Witness ==
    /\ PrefixFree /\ Len(activities) = 3
    /\ last.op = "NextActivity" /\ last.cycle /\ last.result = "ok"
    /\ get_indices(last.from) = <<2, 4>>
    /\ active = workspaces[1][5]

-----------------------------------------------------------------------------
(* C8: a directional command outside a managed workspace fails and issues  *)
(* nothing.                                                                *)

\* C8: a directional command run while the active workspace does not resolve
\* to (activity_index, Some(workspace_index)) ended with the
\* not-in-a-valid-activity-workspace error, issued no command at all, and
\* left the active workspace as it was; it fails in no other case.
C8_UnmanagedMoveFails ==
    last.op \in Directional =>
        /\ ~Managed(last.from) =>
             /\ last.result = "not in a valid activity workspace"
             /\ last.issued = <<>>
             /\ active = last.from
        /\ Managed(last.from) => last.result = "ok" /\ Kinds(last) \cap Switches /= {}

\* MoveUp failed in a workspace whose activity resolves but whose name is not
\* one of the activity's nine, with the workspace animation curve configured
C8_Witness ==
    /\ last.op = "MoveUp"
    /\ last.result = "not in a valid activity workspace"
    /\ config.workspace_switch_animation_curve
    /\ get_indices(last.from)[1] = 0 /\ get_indices(last.from)[2] = None
    /\ active = last.from

-----------------------------------------------------------------------------
(* C9: SwitchToWorkspace with a name that does not resolve fails without   *)
(* side effect.                                                            *)

\* C9: a SwitchToWorkspace run with a name no activity name is a prefix of
\* ended 'activity not found'; with a name whose (first) matching activity
\* does not have it among its 9 workspace names it ended 'workspace not
\* found'; in both cases it issued nothing; otherwise it issued exactly one
\* workspace switch, to the given name, which is a generated name.
C9_UnresolvedSwitchFails ==
    last.op = "SwitchToWorkspace" =>
        LET name == last.arg
            matching == { a \in Activities : starts_with(name, activities[a]) }
            first == CHOOSE a \in matching : \A b \in matching : a <= b
            names(a) == { Generated(a - 1, k - 1) : k \in Slots }
        IN  /\ matching = {} =>
                 last.result = "activity not found" /\ last.issued = <<>>
            /\ (matching /= {} /\ name \notin names(first)) =>
                 last.result = "workspace not found" /\ last.issued = <<>>
            /\ (matching /= {} /\ name \in names(first)) =>
                 /\ last.result = "ok"
                 /\ Target(last) = name
                 /\ active = name
                 /\ Cardinality({ j \in 1..Len(last.issued) :
                                    last.issued[j].cmd \in Switches }) = 1

\* SwitchToWorkspace failed with 'workspace not found' on a name that a later
\* activity generates, with the activity animation curve configured
C9_Witness ==
    /\ last.op = "SwitchToWorkspace"
    /\ last.result = "workspace not found"
    /\ last.issued = <<>>
    /\ config.acitvity_switch_animation_curve
    /\ \E a \in Activities, k \in Slots : last.arg = Generated(a - 1, k - 1)

-----------------------------------------------------------------------------
(* Vocabulary of the mouse-loop properties *)

\* the run is a tick that sampled the cursor
SampledTick == last.op = "tick" /\ last.sample /= NoSample

\* the edge bands, on a sampled coordinate
InLeftBand(sx) == sx <= config.edge_width
InRightBand(sx) == ~InLeftBand(sx) /\ sx >= monitor.width - 1 - config.edge_width
InTopBand(sy) == sy <= config.edge_width
InBottomBand(sy) == ~InTopBand(sy) /\ sy >= monitor.height - 1 - config.edge_width

Triggered(sample) ==
    \/ InLeftBand(sample[1]) \/ InRightBand(sample[1])
    \/ InTopBand(sample[2]) \/ InBottomBand(sample[2])

\* the cursor-reposition command of a run (its last command)
Reposition(run) == run.issued[Len(run.issued)]

\* the run issued exactly: an optional animation, one plain switch, one MoveCursor
SwitchedAndRepositioned(run) ==
    /\ run.result = "switched"
    /\ Len(run.issued) >= 2
    /\ run.issued[Len(run.issued)].cmd = "movecursor"
    /\ run.issued[Len(run.issued) - 1].cmd = "workspace"

-----------------------------------------------------------------------------
(* C6: a left-edge (top-edge) trigger repositions the cursor to the        *)
(* opposite side using edge_margin.                                        *)

\* C6: a tick that sampled cursor x <= edge_width (or y <= edge_width) in a
\* managed workspace issued a workspace switch and then a cursor reposition
\* with x = monitor_width - edge_margin when x <= edge_width, with
\* y = monitor_height - edge_margin when y <= edge_width, and with the
\* sampled value on an axis that is in neither of its edge bands.
C6_LeftEdgeReposition ==
    (/\ SampledTick
     /\ InLeftBand(last.sample[1]) \/ InTopBand(last.sample[2])
     /\ Managed(last.from)) =>
        /\ SwitchedAndRepositioned(last)
        /\ InLeftBand(last.sample[1]) =>
             Reposition(last).x = monitor.width - config.edge_margin
        /\ InTopBand(last.sample[2]) =>
             Reposition(last).y = monitor.height - config.edge_margin
        /\ (~InLeftBand(last.sample[1]) /\ ~InRightBand(last.sample[1])) =>
             Reposition(last).x = last.sample[1]
        /\ (~InTopBand(last.sample[2]) /\ ~InBottomBand(last.sample[2])) =>
             Reposition(last).y = last.sample[2]
        /\ cursor = <<Reposition(last).x, Reposition(last).y>>

\* a tick with the cursor on the left edge only, edge_margin 3: the cursor
\* went to x = monitor_width - 3 and kept its y
C6_Witness ==
    /\ SampledTick /\ last.result = "switched"
    /\ config.edge_margin = 3
    /\ last.sample = <<0, 2>>
    /\ Managed(last.from)
    /\ Reposition(last) = MoveCursor(monitor.width - 3, 2)
    /\ cursor = <<monitor.width - 3, 2>>

-----------------------------------------------------------------------------
(* C7: a right-edge (bottom-edge) trigger repositions the cursor to        *)
(* edge_margin.                                                            *)

\* C7: a tick that sampled cursor x >= monitor_width - 1 - edge_width (and
\* not in the left band) and switched issued a cursor reposition with
\* x = edge_margin; likewise y = edge_margin for
\* y >= monitor_height - 1 - edge_width (and not in the top band).
C7_RightEdgeMargin ==
    (SampledTick /\ last.result = "switched") =>
        /\ InRightBand(last.sample[1]) => Reposition(last).x = config.edge_margin
        /\ InBottomBand(last.sample[2]) => Reposition(last).y = config.edge_margin

-----------------------------------------------------------------------------
(* C10: an unmanaged workspace is non-fatal for the mouse loop.            *)

\* C10: a tick in which an edge triggered while the active workspace did not
\* resolve to (activity, Some(index)) issued no command, left the active
\* workspace and the cursor as they were, and left the loop running with its
\* next tick enabled; a tick in which an edge triggered in a managed
\* workspace switched, whatever the ticks before it did.
C10_UnknownWorkspaceContinues ==
    (SampledTick /\ Triggered(last.sample)) =>
        /\ ~Managed(last.from) =>
             /\ last.result = "unknown workspace"
             /\ last.issued = <<>>
             /\ active = last.from
             /\ cursor = last.sample
             /\ loop = "running"
             /\ ENABLED MouseLoopTick
        /\ Managed(last.from) =>
             /\ SwitchedAndRepositioned(last)
             /\ loop = "running"

\* a tick with the cursor in the top-left corner in a workspace of no
\* activity, with the workspace animation curve configured
C10_Witness ==
    /\ SampledTick /\ last.result = "unknown workspace"
    /\ last.sample = <<0, 0>>
    /\ get_indices(last.from) = <<None, None>>
    /\ config.workspace_switch_animation_curve
    /\ loop = "running"

-----------------------------------------------------------------------------
(* C11: a tick whose cursor sample lies in no edge band is a no-op *)

\* C11: a tick takes the skip (x + y == 0) exactly when the sampled cursor is
\* in neither the horizontal nor the vertical edge band, and such a tick
\* makes no compositor call after the cursor sample: it does not read the
\* active workspace, issues no animation, switch or cursor command, and
\* leaves the active workspace and the cursor as they were
C11_IdleTickNoOp ==
    SampledTick =>
        /\ (last.result = "idle") <=> ~Triggered(last.sample)
        /\ last.result = "idle" =>
               /\ last.from = <<>>
               /\ last.issued = <<>>
               /\ cursor = last.sample

\* an idle tick in a managed workspace with the cursor inside the monitor
C11_Witness ==
    /\ SampledTick
    /\ last.result = "idle"
    /\ ~Triggered(last.sample)
    /\ Managed(active)
    /\ config.workspace_switch_animation_curve

-----------------------------------------------------------------------------
(* C12: the shape of the grid *)

\* the grid has the shape State::new gives it
GridShape ==
    /\ Len(activities) >= 1
    /\ activities = IF config.activities = <<>> THEN <<DefaultName>>
                    ELSE config.activities
    /\ DOMAIN workspaces = 1..Len(activities)
    /\ \A a \in 1..Len(activities) :
           /\ DOMAIN workspaces[a] = 1..9
           /\ \A k \in 0..8 :
                  workspaces[a][k + 1] =
                      activities[a] \o <<":">>
                          \o <<<<"1", "2", "3", "4", "5", "6", "7", "8", "9">>[k + 1]>>

\* C12: for every configured activity list, the empty one (which gives the
\* single activity "default") included, the grid has at least one activity,
\* one workspace list per activity at the same index, nine names in each
\* list, the name at local index k being "{activity_name}:{k+1}"; and no
\* command and no tick of the mouse loop changes the grid
C12_GridShapeFixed ==
    /\ []GridShape
    /\ [][activities' = activities /\ workspaces' = workspaces]_vars

\* the grid of the empty configuration after a switching tick of the mouse
\* loop that followed commands
C12_Witness ==
    /\ config.activities = <<>>
    /\ GridShape
    /\ last.op = "tick"
    /\ last.result = "switched"
    /\ last.from = activities[1] \o <<":", "5">>

-----------------------------------------------------------------------------
(* C13: NextActivity and PrevActivity from a workspace of no activity *)

\* C13: when the current workspace belongs to no configured activity,
\* NextActivity and PrevActivity, with either cycle flag, switch to the first
\* workspace of activity 0: the generated name of (0, 0)
C13_UnmanagedGoesToFirst ==
    (last.op \in {"NextActivity", "PrevActivity"}
        /\ get_activity_index(last.from) = None) =>
        /\ last.result = "ok"
        /\ Kinds(last) \cap Switches /= {}
        /\ Target(last) = Generated(0, 0)
        /\ get_indices(Target(last)) = <<0, 0>>
        /\ active = Generated(0, 0)

\* PrevActivity without cycle from the workspace "1" in a grid of two activities
C13_Witness ==
    /\ last.op = "PrevActivity"
    /\ ~last.cycle
    /\ last.from = <<"1">>
    /\ Len(activities) = 2
    /\ active = workspaces[1][1]

-----------------------------------------------------------------------------
(* C14: SwitchToActivity from a workspace of no activity *)

\* C14: SwitchToActivity{name} issued while the current workspace has no
\* recognized activity prefix switches to "{name}:1", the first workspace of
\* the destination activity
C14_SwitchToActivityFirstWorkspace ==
    (last.op = "SwitchToActivity" /\ get_activity_index(last.from) = None) =>
        Target(last) = last.arg \o <<":", "1">>

-----------------------------------------------------------------------------
(* C15: the mouse loop issues no redundant switch *)

\* the workspace command of a switching tick: the one before the last
TickSwitch(run) == run.issued[Len(run.issued) - 1]

\* C15: a tick issues a workspace switch only to a workspace whose name
\* differs from the active workspace it read; and whenever at least one edge
\* triggers in a managed workspace the target does differ, so no triggered
\* tick takes the branch that skips the switch
C15_NoRedundantSwitch ==
    SampledTick =>
        /\ last.result /= "same workspace"
        /\ Kinds(last) \cap Switches /= {} =>
               /\ last.result = "switched"
               /\ TickSwitch(last).cmd \in Switches
               /\ TickSwitch(last).name /= last.from
        /\ (Triggered(last.sample) /\ Managed(last.from)) =>
               /\ last.result = "switched"
               /\ Kinds(last) \cap Switches /= {}
               /\ active /= last.from

\* a tick triggered at the top edge alone that switched to another workspace
C15_Witness ==
    /\ SampledTick
    /\ InTopBand(last.sample[2])
    /\ ~InLeftBand(last.sample[1])
    /\ ~InRightBand(last.sample[1])
    /\ last.result = "switched"
    /\ TickSwitch(last).name /= last.from

-----------------------------------------------------------------------------
(* C16: the order of the side effects of a switching tick *)

\* the commands of a switching tick, in order: the animation if the curve is
\* set, then the plain workspace switch, then the cursor reposition; both have
\* taken effect when the tick ends
TickOrder ==
    (SampledTick /\ last.result = "switched") =>
        LET n == Len(last.issued) IN
        /\ n = IF config.workspace_switch_animation_curve THEN 3 ELSE 2
        /\ n = 3 => last.issued[1].cmd = "animation"
        /\ last.issued[n - 1].cmd = "workspace"
        /\ last.issued[n].cmd = "movecursor"
        /\ "movetoworkspace" \notin Kinds(last)
        /\ active = last.issued[n - 1].name
        /\ cursor = <<last.issued[n].x, last.issued[n].y>>

\* the tick that follows a switching tick samples the repositioned cursor
SampleAfterReposition ==
    (/\ SampledTick
     /\ last.result = "switched"
     /\ last'.op = "tick"
     /\ last'.sample /= NoSample) =>
        last'.sample = <<Reposition(last).x, Reposition(last).y>>

\* C16: in a switching tick the animation command (if any) is issued before
\* the workspace switch and the switch before the cursor reposition; the
\* switch is always the plain one, never the move-window one; and the next
\* cursor sample is taken only after the reposition of the previous tick
C16_TickOrder == []TickOrder /\ [][SampleAfterReposition]_vars

\* a switching tick with the curve set: three commands, the cursor where the
\* reposition put it
C16_Witness ==
    /\ SampledTick
    /\ last.result = "switched"
    /\ Len(last.issued) = 3
    /\ last.issued[1].cmd = "animation"
    /\ cursor = <<Reposition(last).x, Reposition(last).y>>
    /\ cursor /= last.sample

-----------------------------------------------------------------------------
(* C17: a tick triggered on both axes *)

\* the styles of the animation commands of a run, in order
AnimationStyles(run) ==
    LET F[i \in 0..Len(run.issued)] ==
            IF i = 0 THEN <<>>
            ELSE IF run.issued[i].cmd = "animation"
                 THEN Append(F[i - 1], run.issued[i].name[1])
                 ELSE F[i - 1]
    IN F[Len(run.issued)]

\* the animation call of the given style: one command when the workspace
\* switch curve is set, skipped when it is unset
Applied(style) ==
    IF config.workspace_switch_animation_curve THEN <<style>> ELSE <<>>

InHorizontalBand(sample) == InLeftBand(sample[1]) \/ InRightBand(sample[1])
InVerticalBand(sample) == InTopBand(sample[2]) \/ InBottomBand(sample[2])

\* C17: when the horizontal and the vertical edge both trigger in one tick in
\* a managed workspace, the target is in the same activity and differs from
\* the current workspace in column and in row, the cursor is repositioned on
\* both axes, and one animation profile is applied, the horizontal one; the
\* vertical profile is applied exactly when the vertical edge alone triggers
C17_DiagonalTrigger ==
    (SampledTick /\ Managed(last.from)) =>
        LET a == get_indices(last.from)[1]
            k == get_indices(last.from)[2]
        IN
        /\ (InHorizontalBand(last.sample) /\ InVerticalBand(last.sample)) =>
               /\ last.result = "switched"
               /\ \E k2 \in 0..8 :
                      /\ TickSwitch(last).name = workspaces[a + 1][k2 + 1]
                      /\ k2 % 3 /= k % 3
                      /\ k2 \div 3 /= k \div 3
               /\ Reposition(last).cmd = "movecursor"
               /\ Reposition(last).x =
                      IF InLeftBand(last.sample[1])
                      THEN monitor.width - config.edge_margin ELSE 2
               /\ Reposition(last).y =
                      IF InTopBand(last.sample[2])
                      THEN monitor.height - config.edge_margin ELSE 2
               /\ Reposition(last).x /= last.sample[1]
               /\ Reposition(last).y /= last.sample[2]
               /\ AnimationStyles(last) = Applied("horizontal")
        /\ (InVerticalBand(last.sample) /\ ~InHorizontalBand(last.sample)) =>
               AnimationStyles(last) = Applied("vertical")
        /\ (InHorizontalBand(last.sample) /\ ~InVerticalBand(last.sample)) =>
               AnimationStyles(last) = Applied("horizontal")

\* a tick with the cursor in the bottom right corner and the curve set
C17_Witness ==
    /\ SampledTick
    /\ Managed(last.from)
    /\ InRightBand(last.sample[1])
    /\ InBottomBand(last.sample[2])
    /\ config.workspace_switch_animation_curve
    /\ last.result = "switched"
    /\ AnimationStyles(last) = <<"horizontal">>

-----------------------------------------------------------------------------
(* C18: the mouse loop follows the active workspace of each tick *)

\* the step of a sampled cursor coordinate along its axis: -1 in the low
\* band, 1 in the high band
StepX(sx) == IF InLeftBand(sx) THEN -1 ELSE IF InRightBand(sx) THEN 1 ELSE 0
StepY(sy) == IF InTopBand(sy) THEN -1 ELSE IF InBottomBand(sy) THEN 1 ELSE 0

\* the wrap-around grid neighbour of workspace w, in the activity of w, for
\* the bands the sample is in
WrapNeighbour(w, sample) ==
    workspaces[get_indices(w)[1] + 1]
              [RefMove(get_indices(w)[2], StepX(sample[1]), StepY(sample[2]), TRUE) + 1]

\* a switching tick goes to the neighbour of the workspace active when it runs
TickFollowsActive ==
    (last'.op = "tick" /\ last'.result = "switched") =>
        /\ Managed(active)
        /\ last'.from = active
        /\ last'.sample = cursor
        /\ TickSwitch(last').name = WrapNeighbour(active, cursor)
        /\ active' = WrapNeighbour(active, cursor)

\* the triggered tick that follows a switch by another actor to a managed
\* workspace switches to the neighbour of that workspace
TickAfterExternal ==
    (/\ last.op = "external"
     /\ last'.op = "tick"
     /\ last'.sample /= NoSample
     /\ Triggered(cursor)
     /\ Managed(active)) =>
        /\ last'.result = "switched"
        /\ active' = WrapNeighbour(active, cursor)

\* C18: in every switching tick the target is computed from the active
\* workspace read in that same tick; if another actor changes the active
\* workspace between two ticks, the next triggered tick switches to the
\* wrap-around grid neighbour of that workspace, in that workspace's activity
C18_SelfCorrecting == [][TickFollowsActive /\ TickAfterExternal]_vars

\* a tick switched inside the second activity, where only another actor can
\* have put the loop
C18_Witness ==
    /\ SampledTick
    /\ last.result = "switched"
    /\ Len(workspaces) = 2
    /\ last.from = workspaces[2][5]
    /\ active = workspaces[2][6]

-----------------------------------------------------------------------------
(* C19: the mouse loop switches where the directional commands with cycle do *)

\* the target of a switching tick is the target of the directional move with
\* cycle for the bands of its sample: MoveLeft for the left band, MoveRight
\* for the right, MoveUp for the top, MoveDown for the bottom, and the single
\* move of both steps for a corner; it wraps at the rim of the grid
TickIsCycleMove ==
    LET dx == StepX(last.sample[1])
        dy == StepY(last.sample[2])
    IN  /\ moved_workspace(last.from, dx, dy, TRUE) =
               [ok |-> TRUE, name |-> TickSwitch(last).name]
        /\ TickSwitch(last).name = WrapNeighbour(last.from, last.sample)

\* the target of a switching tick is reached by the move along x followed by
\* the move along y, and by the two in the other order
TickIsComposition ==
    LET dx == StepX(last.sample[1])
        dy == StepY(last.sample[2])
        along_x == moved_workspace(last.from, dx, 0, TRUE)
        along_y == moved_workspace(last.from, 0, dy, TRUE)
    IN  /\ along_x.ok
        /\ moved_workspace(along_x.name, 0, dy, TRUE) =
               [ok |-> TRUE, name |-> TickSwitch(last).name]
        /\ along_y.ok
        /\ moved_workspace(along_y.name, dx, 0, TRUE) =
               [ok |-> TRUE, name |-> TickSwitch(last).name]

\* C19: the workspace the mouse loop switches to on a left-edge trigger is
\* the MoveLeft{cycle:true} target, on a right-edge trigger the
\* MoveRight{cycle:true} target, on a top-edge trigger the MoveUp{cycle:true}
\* target, on a bottom-edge trigger the MoveDown{cycle:true} target, and on a
\* diagonal trigger the composition of both; the loop never clamps
C19_EdgeIsCycleMoveAnyNames ==
    (SampledTick /\ last.result = "switched") =>
        TickIsCycleMove /\ TickIsComposition

\* C19 amended: the same, the diagonal target being that of the single move
\* with both steps, and the composition of the two directional moves when no
\* workspace name of the activity has an earlier activity's name as a prefix
C19_EdgeIsCycleMove ==
    (SampledTick /\ last.result = "switched") =>
        /\ TickIsCycleMove
        /\ ResolvesToOwnActivity(get_indices(last.from)[1]) => TickIsComposition

\* a tick in the top left corner of the screen, from the top left workspace
\* of the grid: both axes wrap
C19_Witness ==
    /\ SampledTick
    /\ last.result = "switched"
    /\ InLeftBand(last.sample[1])
    /\ InTopBand(last.sample[2])
    /\ get_indices(last.from) = <<0, 0>>
    /\ ResolvesToOwnActivity(0)
    /\ active = workspaces[1][9]

-----------------------------------------------------------------------------
(* C20: navigation stays inside the grid *)

\* the generated workspace names of the grid
GeneratedNames ==
    { workspaces[a][k] : a \in 1..Len(workspaces), k \in 1..9 }

\* the names of the workspace switches a run issued
SwitchNames(run) ==
    { run.issued[i].name : i \in { j \in 1..Len(run.issued) : run.issued[j].cmd \in Switches } }

\* the runs of navigation: the directional moves, the activity steps, the
\* mouse loop
Navigation == Directional \cup {"NextActivity", "PrevActivity", "MouseLoop", "tick"}

\* C20: for every grid and every start in a generated workspace, any sequence
\* of MoveLeft, MoveRight, MoveUp, MoveDown, NextActivity and PrevActivity
\* (either cycle flag) and of mouse-loop switches only issues switches to
\* generated names of the grid
C20_ClosedAnyNames ==
    /\ last.op \in Navigation => SwitchNames(last) \subseteq GeneratedNames
    /\ active \in GeneratedNames

\* C20 amended: the same for every grid in which no activity name is a prefix
\* of another activity's name
C20_Closed ==
    PrefixFree =>
        /\ last.op \in Navigation => SwitchNames(last) \subseteq GeneratedNames
        /\ active \in GeneratedNames

\* NextActivity with cycle from the last activity of a prefix-free grid of two
\* to the same slot of the first, after the mouse loop was started
C20_Witness ==
    /\ PrefixFree
    /\ Len(activities) = 2
    /\ loop = "running"
    /\ last.op = "NextActivity"
    /\ last.cycle
    /\ last.from = workspaces[2][3]
    /\ SwitchNames(last) = {workspaces[1][3]}
    /\ active = workspaces[1][3]

-----------------------------------------------------------------------------
(* C21: no second switch after a wraparound *)

\* edge_margin > edge_width + 1 on a monitor wider and taller than
\* 2 * edge_margin
RoomyMargin ==
    /\ config.edge_margin > config.edge_width + 1
    /\ monitor.width > 2 * config.edge_margin
    /\ monitor.height > 2 * config.edge_margin

\* the position a switching tick sends the cursor to is in no edge band
RepositionOutsideBands ==
    (RoomyMargin /\ SampledTick /\ last.result = "switched") =>
        ~Triggered(<<Reposition(last).x, Reposition(last).y>>)

\* the tick that follows a switching tick, the pointer not moved in between,
\* triggers no edge and issues nothing
QuietAfterSwitch ==
    (/\ RoomyMargin
     /\ SampledTick
     /\ last.result = "switched"
     /\ last'.op = "tick"
     /\ last'.sample /= NoSample) =>
        /\ last'.result = "idle"
        /\ last'.issued = <<>>
        /\ active' = active

\* C21: for every configuration with edge_margin > edge_width + 1 and a
\* monitor wider and taller than 2 * edge_margin, the cursor position of the
\* reposition command after an edge-triggered switch lies outside all four
\* edge bands, so if the pointer is not moved afterwards the following tick
\* triggers no edge and issues no further workspace switch
C21_NoPingPong == []RepositionOutsideBands /\ [][QuietAfterSwitch]_vars

=============================================================================
